---------------------------- MODULE Spec2Model ----------------------------
(***************************************************************************)
(* URL shortener: the in-memory URLStore (models/urlStore.js), the express *)
(* route layer that serves it (unnamed/part_002) and the React pages that  *)
(* call it (unnamed/part_001).                                             *)
(*                                                                         *)
(* JavaScript strings are TLA+ strings; the operations that read a string  *)
(* character by character (the shortcode pattern, the URL parser,          *)
(* startsWith, includes) work on Chars(s), the sequence of its characters. *)
(* An optional value (undefined / null / a missing JSON field) is the      *)
(* empty tuple, a present value v is the one-element tuple <<v>>.          *)
(* Dates are integers (milliseconds); an ISO-8601 string is the record of  *)
(* its fields.  Time values stay far inside the range of Date, so the      *)
(* RangeError of toISOString on an invalid Date is outside the inputs.     *)
(***************************************************************************)
EXTENDS Integers, Sequences, FiniteSets, TLC

VARIABLES
    urls,        \* URLStore.urls: Map shortcode -> url data, in insertion order
    analytics,   \* URLStore.analytics: Map shortcode -> analytics data
    now,         \* the clock read by new Date(), in milliseconds
    last,        \* the operation that ran last at the present time: inputs and outcome
    given,       \* history: shortcode -> originalUrl passed to the create that allocated it
    clickCalls,  \* history: shortcode -> number of recordClick calls made on it since then
    requests,    \* POST requests the server has received, in the order of arrival, and
                 \*   the outcome of each once its handler has run
    running,     \* the createShortURL call that is inside its do-while loop, if any
    urlForms,      \* URLShortenerPage: the forms on the page, in the order shown
    shortenedUrls, \* URLShortenerPage: the short links obtained, newest first
    errors,        \* URLShortenerPage: form id -> the error messages shown under the form
    fetches,       \* the shortenUrl calls waiting for the server, each with the urlForms
                   \*   and errors of the render whose Shorten button was clicked
    expandedRows   \* StatisticsPage: shortcode -> the analytics shown under its row

\* the state of the React pages
pageVars == <<urlForms, shortenedUrls, errors, fetches, expandedRows>>

vars == <<urls, analytics, now, last, given, clickCalls, requests, running, pageVars>>

-----------------------------------------------------------------------------
(* Bounds of the model *)

MaxUrls == 2
MaxClicks == 1
MaxRequests == 2
MaxClickEvents == 3
\* clicks recorded on the code whose analytics panel is opened
MaxPanelClicks == 11
\* forms on the page while requests of several forms are in flight
MaxPageForms == 2
\* Shorten clicks that send a request
MaxShortens == 2
\* Shorten clicks that send a request while the page holds up to MaxForms forms
MaxFormsShortens == 1

-----------------------------------------------------------------------------
(* Optional values *)

Undefined == <<>>

Some(v) == <<v>>

-----------------------------------------------------------------------------
(* Inputs of the model *)

Urls == {"http://a.io", "ftp://b.io/x", "not-a-url"}

LongCode == "abcdefghijklmnopqrstu"

CustomCodes == {Undefined, Some(""), Some("abc123"), Some("bad code!"), Some(LongCode)}

Validities == {Some(1)}

\* values nanoid(6) returns in the model
NanoidValues == {"abc123", "x_Y-z0"}

QueryCodes == {"abc123", "x_Y-z0", "zzz"}

\* who clicks: the Referer header, the User-Agent header and the address
Clients == {[referrer |-> "", userAgent |-> "curl/8", ip |-> "127.0.0.1"]}

\* the callers of recordClick where the order of the click events is observed
ClickClients == {[referrer |-> "", userAgent |-> "curl/8", ip |-> "127.0.0.1"],
                 [referrer |-> "https://ref.example/", userAgent |-> "Mozilla/5.0",
                  ip |-> "8.8.8.8"]}

\* JSON bodies of POST /shorturls; a validity is a JSON number or a JSON string
HttpBodies ==
    {[url |-> Some("http://a.io"), validity |-> Undefined, shortcode |-> Undefined],
     [url |-> Some("http://a.io"), validity |-> Some([num |-> 1]), shortcode |-> Some("abc123")],
     [url |-> Some("ftp://b.io/x"), validity |-> Some([str |-> "1"]), shortcode |-> Some("abc123")],
     [url |-> Some("http://a.io"), validity |-> Some([num |-> 1]), shortcode |-> Some("health")],
     [url |-> Some("http://a.io"), validity |-> Some([num |-> 1]), shortcode |-> Some("")],
     [url |-> Some("http://a.io"), validity |-> Undefined, shortcode |-> Some("bad code!")],
     [url |-> Some("not-a-url"), validity |-> Undefined, shortcode |-> Undefined],
     [url |-> Some(""), validity |-> Undefined, shortcode |-> Undefined],
     [url |-> Undefined, validity |-> Some([num |-> 1]), shortcode |-> Undefined],
     [url |-> Some("http://a.io"), validity |-> Some([num |-> 0]), shortcode |-> Undefined],
     [url |-> Some("http://a.io"), validity |-> Some([str |-> "-5"]), shortcode |-> Undefined],
     [url |-> Some("http://a.io"), validity |-> Some([str |-> "abc"]), shortcode |-> Undefined],
     [url |-> Some("http://a.io"), validity |-> Some([str |-> "1x"]), shortcode |-> Undefined]}

\* paths of GET requests, as sequences of segments
HttpPaths ==
    {<<"abc123">>, <<"health">>, <<"x_Y-z0">>,
     <<"shorturls", "abc123">>, <<"shorturls", "health">>,
     <<"api", "statistics">>, <<>>}

HttpClients == {[referrer |-> "", userAgent |-> "curl/8", ip |-> "127.0.0.1"]}

\* the times the clock shows: before, at and after the expiry of a code created
\* at 0 with a validity of one minute
ClockTimes == {0, 60000, 120000}

-----------------------------------------------------------------------------
(* Strings *)

InvalidUrlMessage == "Invalid URL format"

InvalidShortcodeMessage ==
    "Invalid shortcode format. Must be alphanumeric and up to 20 characters"

CollisionMessage == "Shortcode already exists"

\* the characters of a string
S(str) == SubSeq([i \in 1..Len(str) |-> SubSeq(str, i, i)], 1, Len(str))

\* the strings of the model whose characters are read
ModelStrings ==
    Urls \cup NanoidValues \cup QueryCodes
        \cup {c[1] : c \in CustomCodes \ {Undefined}}
        \cup {cl.ip : cl \in Clients \cup HttpClients \cup ClickClients}
        \cup {b.url[1] : b \in {x \in HttpBodies : x.url # Undefined}}
        \cup {b.shortcode[1] : b \in {x \in HttpBodies : x.shortcode # Undefined}}
        \cup {b.validity[1].str : b \in {x \in HttpBodies : x.validity # Undefined
                                                          /\ "str" \in DOMAIN x.validity[1]}}
        \cup UNION {{p[i] : i \in DOMAIN p} : p \in HttpPaths}
        \cup {InvalidUrlMessage, InvalidShortcodeMessage, CollisionMessage,
              "Invalid URL format", "shortcode already exists", "Shortcode collision",
              "Invalid shortcode format", "192.168.", "127.0.",
              ":shortcode", "shorturls", "api", "statistics", "health"}

\* their characters, evaluated once
CharTable == [s \in ModelStrings |-> S(s)]

Chars(s) == IF s \in DOMAIN CharTable THEN CharTable[s] ELSE S(s)

\* String.prototype.startsWith
StartsWith(s, p) ==
    LET cs == Chars(s)
        cp == Chars(p)
    IN  Len(cs) >= Len(cp) /\ SubSeq(cs, 1, Len(cp)) = cp

\* String.prototype.includes: case-sensitive substring search
Includes(s, t) ==
    LET cs == Chars(s)
        ct == Chars(t)
    IN  \E i \in 1..(Len(cs) - Len(ct) + 1) : SubSeq(cs, i, i + Len(ct) - 1) = ct

Digits == {"0", "1", "2", "3", "4", "5", "6", "7", "8", "9"}

Lower == {"a", "b", "c", "d", "e", "f", "g", "h", "i", "j", "k", "l", "m",
          "n", "o", "p", "q", "r", "s", "t", "u", "v", "w", "x", "y", "z"}

Upper == {"A", "B", "C", "D", "E", "F", "G", "H", "I", "J", "K", "L", "M",
          "N", "O", "P", "Q", "R", "S", "T", "U", "V", "W", "X", "Y", "Z"}

Letters == Lower \cup Upper

AlphaNum == Letters \cup Digits

-----------------------------------------------------------------------------
(* Map: an insertion-ordered sequence of entries [key, val] *)

MapHas(m, k) == \E i \in DOMAIN m : m[i].key = k

MapGet(m, k) == m[CHOOSE i \in DOMAIN m : m[i].key = k].val

MapSet(m, k, v) ==
    IF MapHas(m, k)
    THEN [i \in DOMAIN m |-> IF m[i].key = k THEN [key |-> k, val |-> v] ELSE m[i]]
    ELSE Append(m, [key |-> k, val |-> v])

MapKeys(m) == {m[i].key : i \in DOMAIN m}

-----------------------------------------------------------------------------
(* Date <-> ISO string *)

ToISOString(t) ==
    [day |-> t \div 86400000,
     hh  |-> (t \div 3600000) % 24,
     mm  |-> (t \div 60000) % 60,
     ss  |-> (t \div 1000) % 60,
     sss |-> t % 1000]

DateParse(iso) ==
    (((iso.day * 24 + iso.hh) * 60 + iso.mm) * 60 + iso.ss) * 1000 + iso.sss

-----------------------------------------------------------------------------
(* new URL(originalUrl) without a base: the WHATWG parser's scheme and host  *)
(* states.  A string with no "scheme:" prefix is a failure; a special scheme *)
(* needs a non-empty host without forbidden host code points.               *)

SchemeChars == AlphaNum \cup {"+", "-", "."}

SpecialSchemes == {S("http"), S("https"), S("ws"), S("wss"), S("ftp")}

ForbiddenHostChars == {" ", "<", ">", "^", "|", "[", "]", "%"}

\* index of the first ":" of the characters c, or 0
FirstColon(c) ==
    LET colons == {i \in 1..Len(c) : c[i] = ":"}
    IN  IF colons = {} THEN 0 ELSE CHOOSE i \in colons : \A j \in colons : i <= j

\* index of the first character of c from position i on that is in (stop = TRUE)
\* or not in (stop = FALSE) the set cs, or Len(c) + 1
Scan(c, i, cs, stop) ==
    LET hits == {j \in i..Len(c) : (c[j] \in cs) = stop}
    IN  IF hits = {} THEN Len(c) + 1 ELSE CHOOSE j \in hits : \A k \in hits : j <= k

URLParses(u) ==
    LET c == Chars(u)
        colon == FirstColon(c)
        \* the host starts after "scheme:" and its slashes
        hostStart == Scan(c, colon + 1, {"/", "\\"}, FALSE)
        \* and ends at the next "/", "\", "?" or "#", or at the end
        hostEnd == Scan(c, hostStart, {"/", "\\", "?", "#"}, TRUE)
    IN  /\ colon > 1
        /\ c[1] \in Letters
        /\ \A i \in 2..(colon - 1) : c[i] \in SchemeChars
        /\ SubSeq(c, 1, colon - 1) \in SpecialSchemes =>
              /\ hostEnd > hostStart
              /\ \A j \in hostStart..(hostEnd - 1) : c[j] \notin ForbiddenHostChars

\* URLParses over the model's URLs, evaluated once
ParsedUrls == [u \in Urls |-> URLParses(u)]

\* new URL(originalUrl) returns (TRUE) or throws (FALSE)
NewURL(u) == IF u \in DOMAIN ParsedUrls THEN ParsedUrls[u] ELSE URLParses(u)

-----------------------------------------------------------------------------
(* URLStore *)

\* /^[a-zA-Z0-9]{1,20}$/.test(customShortcode)
ShortcodeRegexTest(s) ==
    LET c == Chars(s)
    IN  /\ Len(c) >= 1
        /\ Len(c) <= 20
        /\ \A i \in 1..Len(c) : c[i] \in AlphaNum

\* if (customShortcode): null, undefined and "" are falsy
Truthy(opt) == opt # Undefined /\ opt[1] # ""

\* the alphabet nanoid draws from (nanoid's urlAlphabet)
NanoidAlphabet == AlphaNum \cup {"_", "-"}

DefaultValidity == 30

NanoidSize == 6

IsNanoid(s) ==
    LET c == Chars(s)
    IN  Len(c) = NanoidSize /\ \A i \in 1..Len(c) : c[i] \in NanoidAlphabet

\* faulty variant: a generator that returns the same code at every call
NanoidOutputs_Constant == {"abc123"}

\* what nanoid(6) can return: strings of NanoidSize characters of its alphabet
NanoidOutputs == {s \in NanoidValues : IsNanoid(s)}

Threw(store, msg) ==
    [urls |-> store.urls, analytics |-> store.analytics,
     threw |-> TRUE, message |-> msg]

Returned(store, v) ==
    [urls |-> store.urls, analytics |-> store.analytics,
     threw |-> FALSE, value |-> v]

BaseUrl == "http://localhost:3000/"

ShortLink(shortcode) == BaseUrl \o shortcode

\* faulty variant: the validity is taken as seconds, not minutes
ExpiryTime_Seconds(createdAt, validity) == createdAt + (validity * 1000)

ExpiryTime(createdAt, validity) == createdAt + (validity * 60 * 1000)

\* lines 46-73: the record is built and both maps are set
\* faulty variant: the URL record is stored without its analytics record
StoreRecord_WithoutAnalytics(store, t, originalUrl, validity, shortcode) ==
    Returned([urls |-> MapSet(store.urls, shortcode,
                              [originalUrl |-> originalUrl,
                               shortcode   |-> shortcode,
                               createdAt   |-> ToISOString(t),
                               expiryDate  |-> ToISOString(ExpiryTime(t, validity)),
                               validity    |-> validity]),
              analytics |-> store.analytics],
             [shortLink |-> ShortLink(shortcode),
              expiry |-> ToISOString(ExpiryTime(t, validity))])

StoreRecord(store, t, originalUrl, validity, shortcode) ==
    LET urlData == [originalUrl |-> originalUrl,
                    shortcode   |-> shortcode,
                    createdAt   |-> ToISOString(t),
                    expiryDate  |-> ToISOString(ExpiryTime(t, validity)),
                    validity    |-> validity]
        stored == [urls |-> MapSet(store.urls, shortcode, urlData),
                   analytics |-> MapSet(store.analytics, shortcode,
                                        [shortcode |-> shortcode, totalClicks |-> 0,
                                         clicks |-> <<>>])]
    IN  Returned(stored, [shortLink |-> ShortLink(shortcode), expiry |-> urlData.expiryDate])

\* faulty variant: no collision check, a custom code replaces the record it names
createShortURL_NoCollisionCheck(store, t, originalUrl, validityArg, customShortcode, generated) ==
    LET validity == IF validityArg = Undefined THEN DefaultValidity ELSE validityArg[1]
    IN  IF ~NewURL(originalUrl)
        THEN Threw(store, InvalidUrlMessage)
        ELSE IF Truthy(customShortcode)
        THEN IF ~ShortcodeRegexTest(customShortcode[1])
             THEN Threw(store, InvalidShortcodeMessage)
             ELSE StoreRecord(store, t, originalUrl, validity, customShortcode[1])
        ELSE StoreRecord(store, t, originalUrl, validity, generated)

\* faulty variant: the custom code is validated after the record is stored
createShortURL_StoreThenValidate(store, t, originalUrl, validityArg, customShortcode, generated) ==
    LET validity == IF validityArg = Undefined THEN DefaultValidity ELSE validityArg[1]
    IN  IF ~NewURL(originalUrl)
        THEN Threw(store, InvalidUrlMessage)
        ELSE IF Truthy(customShortcode)
        THEN IF MapHas(store.urls, customShortcode[1])
             THEN Threw(store, CollisionMessage)
             ELSE IF ~ShortcodeRegexTest(customShortcode[1])
             THEN Threw(StoreRecord(store, t, originalUrl, validity, customShortcode[1]),
                        InvalidShortcodeMessage)
             ELSE StoreRecord(store, t, originalUrl, validity, customShortcode[1])
        ELSE StoreRecord(store, t, originalUrl, validity, generated)

\* createShortURL(originalUrl, validity = 30, customShortcode = null) at time t;
\* generated is the value of the last nanoid(6) call of the do-while loop
createShortURL(store, t, originalUrl, validityArg, customShortcode, generated) ==
    LET validity == IF validityArg = Undefined THEN DefaultValidity ELSE validityArg[1]
    IN  IF ~NewURL(originalUrl)
        THEN Threw(store, InvalidUrlMessage)
        ELSE IF Truthy(customShortcode)
        THEN IF ~ShortcodeRegexTest(customShortcode[1])
             THEN Threw(store, InvalidShortcodeMessage)
             ELSE IF MapHas(store.urls, customShortcode[1])
             THEN Threw(store, CollisionMessage)
             ELSE StoreRecord(store, t, originalUrl, validity, customShortcode[1])
        ELSE StoreRecord(store, t, originalUrl, validity, generated)

\* the do-while loop of lines 41-43 ends with a code the urls map does not hold
\* faulty variant: the loop ends with the first code drawn, free or not
LoopExit_FirstDraw(store, customShortcode, generated) == TRUE

LoopExit(store, customShortcode, generated) ==
    Truthy(customShortcode) \/ ~MapHas(store.urls, generated)

\* faulty variant: a code stops resolving at its expiry time, not after it
getOriginalURL_ExpiredAtExpiry(store, t, shortcode) ==
    IF ~MapHas(store.urls, shortcode)
    THEN Undefined
    ELSE IF t >= DateParse(MapGet(store.urls, shortcode).expiryDate)
    THEN Undefined
    ELSE Some(MapGet(store.urls, shortcode))

getOriginalURL(store, t, shortcode) ==
    IF ~MapHas(store.urls, shortcode)
    THEN Undefined
    ELSE IF t > DateParse(MapGet(store.urls, shortcode).expiryDate)
    THEN Undefined
    ELSE Some(MapGet(store.urls, shortcode))

getCoarseGeolocation(ip) ==
    IF StartsWith(ip, "192.168.") \/ StartsWith(ip, "127.0.") \/ ip = "::1"
    THEN "Local Network"
    ELSE "Unknown Location"

ClickEvent(t, referrer, userAgent, ip) ==
    [timestamp   |-> ToISOString(t),
     referrer    |-> IF referrer = "" THEN "direct" ELSE referrer,
     userAgent   |-> userAgent,
     ip          |-> ip,
     geolocation |-> getCoarseGeolocation(ip)]

\* faulty variant: the click is appended but the count is not incremented
recordClick_NoIncrement(store, t, shortcode, referrer, userAgent, ip) ==
    IF MapHas(store.analytics, shortcode)
    THEN LET a == MapGet(store.analytics, shortcode)
         IN  [urls |-> store.urls,
              analytics |-> MapSet(store.analytics, shortcode,
                                [a EXCEPT !.clicks = Append(@, ClickEvent(t, referrer, userAgent, ip))])]
    ELSE [urls |-> store.urls, analytics |-> store.analytics]

\* faulty variant: a click is counted on every code of the store
recordClick_CountsEveryCode(store, t, shortcode, referrer, userAgent, ip) ==
    IF MapHas(store.analytics, shortcode)
    THEN [urls |-> store.urls,
          analytics |-> [i \in DOMAIN store.analytics |->
                            [store.analytics[i] EXCEPT !.val.totalClicks = @ + 1]]]
    ELSE [urls |-> store.urls, analytics |-> store.analytics]

\* faulty variant: a click on a code without analytics creates its analytics record
recordClick_CreatesRecord(store, t, shortcode, referrer, userAgent, ip) ==
    [urls |-> store.urls,
     analytics |-> MapSet(store.analytics, shortcode,
                       [shortcode |-> shortcode,
                        totalClicks |-> IF MapHas(store.analytics, shortcode)
                                        THEN MapGet(store.analytics, shortcode).totalClicks + 1
                                        ELSE 1,
                        clicks |-> Append(IF MapHas(store.analytics, shortcode)
                                          THEN MapGet(store.analytics, shortcode).clicks
                                          ELSE <<>>,
                                          ClickEvent(t, referrer, userAgent, ip))])]

\* faulty variant: the newest click is put first
recordClick_NewestFirst(store, t, shortcode, referrer, userAgent, ip) ==
    IF MapHas(store.analytics, shortcode)
    THEN [urls |-> store.urls,
          analytics |-> MapSet(store.analytics, shortcode,
                            [MapGet(store.analytics, shortcode)
                                EXCEPT !.totalClicks = @ + 1,
                                       !.clicks = <<ClickEvent(t, referrer, userAgent, ip)>>
                                                     \o @])]
    ELSE [urls |-> store.urls, analytics |-> store.analytics]

recordClick(store, t, shortcode, referrer, userAgent, ip) ==
    IF MapHas(store.analytics, shortcode)
    THEN LET a == MapGet(store.analytics, shortcode)
         IN  [urls |-> store.urls,
              analytics |-> MapSet(store.analytics, shortcode,
                                [a EXCEPT !.totalClicks = @ + 1,
                                          !.clicks = Append(@, ClickEvent(t, referrer, userAgent, ip))])]
    ELSE [urls |-> store.urls, analytics |-> store.analytics]

\* faulty variant: the analytics of an expired code are not returned
getAnalytics_HidesExpired(store, shortcode) ==
    IF getOriginalURL(store, now, shortcode) = Undefined \/ ~MapHas(store.analytics, shortcode)
    THEN Undefined
    ELSE LET urlData == MapGet(store.urls, shortcode)
             a == MapGet(store.analytics, shortcode)
         IN  Some([shortcode   |-> shortcode,
                   originalUrl |-> urlData.originalUrl,
                   createdAt   |-> urlData.createdAt,
                   expiryDate  |-> urlData.expiryDate,
                   totalClicks |-> a.totalClicks,
                   clicks      |-> a.clicks])

getAnalytics(store, shortcode) ==
    IF ~MapHas(store.urls, shortcode) \/ ~MapHas(store.analytics, shortcode)
    THEN Undefined
    ELSE LET urlData == MapGet(store.urls, shortcode)
             a == MapGet(store.analytics, shortcode)
         IN  Some([shortcode   |-> shortcode,
                   originalUrl |-> urlData.originalUrl,
                   createdAt   |-> urlData.createdAt,
                   expiryDate  |-> urlData.expiryDate,
                   totalClicks |-> a.totalClicks,
                   clicks      |-> a.clicks])

\* faulty variant: the summaries are listed newest first
getAllURLs_NewestFirst(store) ==
    [i \in DOMAIN store.urls |->
        LET shortcode == store.urls[Len(store.urls) + 1 - i].key
            urlData == store.urls[Len(store.urls) + 1 - i].val
        IN  [shortcode   |-> shortcode,
             originalUrl |-> urlData.originalUrl,
             shortLink   |-> ShortLink(shortcode),
             createdAt   |-> urlData.createdAt,
             expiryDate  |-> urlData.expiryDate,
             totalClicks |-> IF MapHas(store.analytics, shortcode)
                             THEN MapGet(store.analytics, shortcode).totalClicks
                             ELSE 0]]

getAllURLs(store) ==
    [i \in DOMAIN store.urls |->
        LET shortcode == store.urls[i].key
            urlData == store.urls[i].val
        IN  [shortcode   |-> shortcode,
             originalUrl |-> urlData.originalUrl,
             shortLink   |-> ShortLink(shortcode),
             createdAt   |-> urlData.createdAt,
             expiryDate  |-> urlData.expiryDate,
             totalClicks |-> IF MapHas(store.analytics, shortcode)
                             THEN MapGet(store.analytics, shortcode).totalClicks
                             ELSE 0]]

-----------------------------------------------------------------------------
(* The store as a value, and the history variables *)

Store == [urls |-> urls, analytics |-> analytics]

\* the code a create call allocates when it does not throw
Allocated(customShortcode, generated) ==
    IF Truthy(customShortcode) THEN customShortcode[1] ELSE generated

\* the values the last nanoid(6) call of a create can have returned
Generated(customShortcode) ==
    IF Truthy(customShortcode) THEN {""} ELSE NanoidOutputs

GivenAfter(g, shortcode, originalUrl) ==
    IF shortcode \in DOMAIN g
    THEN g
    ELSE [c \in DOMAIN g \cup {shortcode} |-> IF c = shortcode THEN originalUrl ELSE g[c]]

CallsAfterCreate(n, shortcode) ==
    IF shortcode \in DOMAIN n
    THEN n
    ELSE [c \in DOMAIN n \cup {shortcode} |-> IF c = shortcode THEN 0 ELSE n[c]]

CallsAfterClick(n, shortcode) ==
    IF shortcode \in DOMAIN n
    THEN [n EXCEPT ![shortcode] = @ + 1]
    ELSE n

Init ==
    /\ urls = <<>>
    /\ analytics = <<>>
    /\ now = 0
    /\ last = [op |-> "none"]
    /\ given = <<>>
    /\ clickCalls = <<>>
    /\ requests = <<>>
    /\ running = Undefined
    /\ urlForms = <<[id |-> 1, url |-> "", validity |-> [num |-> 30], shortcode |-> "",
                     loading |-> FALSE]>>
    /\ shortenedUrls = <<>>
    /\ errors = <<>>
    /\ fetches = <<>>
    /\ expandedRows = <<>>

\* faulty variant: the clock can be set back
Tick_ClockSetBack ==
    /\ \E t \in ClockTimes :
          /\ t # now
          /\ now' = t
    /\ last' = [op |-> "none"]
    /\ UNCHANGED <<urls, analytics, given, clickCalls>>
    /\ UNCHANGED <<requests, running, pageVars>>

Tick ==
    /\ \E t \in ClockTimes :
          /\ t > now
          /\ now' = t
    /\ last' = [op |-> "none"]
    /\ UNCHANGED <<urls, analytics, given, clickCalls>>
    /\ UNCHANGED <<requests, running, pageVars>>

-----------------------------------------------------------------------------
(* Calls of the URLStore methods *)

\* a createShortURL call whose do-while loop, if it ran, drew generated last
CreateWith(originalUrl, validity, customShortcode, generated) ==
    LET out == createShortURL(Store, now, originalUrl, validity, customShortcode, generated)
        shortcode == Allocated(customShortcode, generated)
    IN  /\ LoopExit(Store, customShortcode, generated)
        /\ out.threw \/ Len(urls) < MaxUrls
        /\ urls' = out.urls
        /\ analytics' = out.analytics
        /\ last' = [op |-> "createShortURL",
                    originalUrl |-> originalUrl,
                    customShortcode |-> customShortcode,
                    present |-> (customShortcode # Undefined
                                 /\ MapHas(urls, customShortcode[1])),
                    threw |-> out.threw,
                    message |-> IF out.threw THEN out.message ELSE "",
                    value |-> IF out.threw THEN Undefined ELSE Some(out.value),
                    shortcode |-> IF out.threw THEN Undefined ELSE Some(shortcode)]
        /\ given' = IF out.threw THEN given ELSE GivenAfter(given, shortcode, originalUrl)
        /\ clickCalls' = IF out.threw THEN clickCalls
                         ELSE CallsAfterCreate(clickCalls, shortcode)
        /\ UNCHANGED <<now, requests, pageVars>>

Create ==
    \E originalUrl \in Urls, validity \in Validities, customShortcode \in CustomCodes :
      \E generated \in Generated(customShortcode) :
        /\ CreateWith(originalUrl, validity, customShortcode, generated)
        /\ UNCHANGED running

Resolve ==
    \E shortcode \in QueryCodes :
        /\ last' = [op |-> "getOriginalURL", shortcode |-> shortcode,
                    value |-> getOriginalURL(Store, now, shortcode)]
        /\ UNCHANGED <<urls, analytics, now, given, clickCalls>>
        /\ UNCHANGED <<requests, running, pageVars>>

\* a recordClick call with given arguments
RecordClickWith(shortcode, client) ==
    LET out == recordClick(Store, now, shortcode, client.referrer, client.userAgent,
                           client.ip)
    IN  /\ urls' = out.urls
        /\ analytics' = out.analytics
        /\ last' = [op |-> "recordClick", shortcode |-> shortcode]
        /\ clickCalls' = CallsAfterClick(clickCalls, shortcode)
        /\ UNCHANGED <<now, given>>
        /\ UNCHANGED <<requests, running, pageVars>>

RecordClick ==
    \E shortcode \in QueryCodes, client \in Clients :
        /\ MapHas(analytics, shortcode) =>
              MapGet(analytics, shortcode).totalClicks < MaxClicks
        /\ RecordClickWith(shortcode, client)

GetAnalytics ==
    \E shortcode \in QueryCodes :
        /\ last' = [op |-> "getAnalytics", shortcode |-> shortcode,
                    value |-> getAnalytics(Store, shortcode)]
        /\ UNCHANGED <<urls, analytics, now, given, clickCalls>>
        /\ UNCHANGED <<requests, running, pageVars>>

ListAll ==
    /\ last' = [op |-> "getAllURLs", value |-> getAllURLs(Store)]
    /\ UNCHANGED <<urls, analytics, now, given, clickCalls>>
    /\ UNCHANGED <<requests, running, pageVars>>

Next ==
    \/ Create
    \/ Resolve
    \/ RecordClick
    \/ GetAnalytics
    \/ ListAll
    \/ Tick

Spec == Init /\ [][Next]_vars

-----------------------------------------------------------------------------
(* The express application: routes in the order of their registration *)

RouteDefaultValidity == 30

Routes ==
    <<[method |-> "POST", pattern |-> <<"shorturls">>,               handler |-> "createShortUrl"],
      [method |-> "GET",  pattern |-> <<":shortcode">>,              handler |-> "redirect"],
      [method |-> "GET",  pattern |-> <<"shorturls", ":shortcode">>, handler |-> "statistics"],
      [method |-> "GET",  pattern |-> <<"api", "statistics">>,       handler |-> "allStatistics"],
      [method |-> "GET",  pattern |-> <<"health">>,                  handler |-> "health"]>>

\* a path matches a pattern segment by segment; a ":name" segment matches any segment
PathMatches(pattern, path) ==
    /\ Len(pattern) = Len(path)
    /\ \A i \in DOMAIN pattern : StartsWith(pattern[i], ":") \/ pattern[i] = path[i]

\* the handler of the first route that matches, or the 404 handler of app.use('*')
FirstRoute(hits) ==
    IF hits = {}
    THEN "notFound"
    ELSE Routes[CHOOSE i \in hits : \A j \in hits : i <= j].handler

Route(method, path) ==
    FirstRoute({i \in DOMAIN Routes :
                   Routes[i].method = method /\ PathMatches(Routes[i].pattern, path)})

Response(store, handler, status, body) ==
    [urls |-> store.urls, analytics |-> store.analytics, handler |-> handler,
     status |-> status, body |-> body, created |-> Undefined, clicked |-> Undefined]

ErrorBody(error, message) == [error |-> error, message |-> message]

DigitValue(ch) == CHOOSE d \in 0..9 : <<"0", "1", "2", "3", "4", "5", "6", "7", "8", "9">>[d + 1] = ch

RECURSIVE DecimalValue(_, _, _)
\* the number written by the digits c[i..j]
DecimalValue(c, i, j) ==
    IF j < i THEN 0 ELSE DecimalValue(c, i, j - 1) * 10 + DigitValue(c[j])

\* parseInt of a JSON value: a number (an integer here) is itself; of a string, the
\* integer its sign and leading digits write, whatever follows them, or NaN
\* (Undefined) without a leading digit.  The strings of the inputs start with no
\* white space and no 0x prefix.
ParseInt(v) ==
    IF "num" \in DOMAIN v
    THEN Some(v.num)
    ELSE LET c == Chars(v.str)
             signed == Len(c) > 0 /\ c[1] \in {"+", "-"}
             first == IF signed THEN 2 ELSE 1
             stop == Scan(c, first, Digits, FALSE)
         IN  IF stop = first
             THEN Undefined
             ELSE Some((IF signed /\ c[1] = "-" THEN -1 ELSE 1) * DecimalValue(c, first, stop - 1))

\* validateCreateURLInput: a 400 response, or the body with its validity parsed
validateCreateURLInput(body) ==
    IF body.url = Undefined \/ body.url[1] = ""
    THEN [next |-> FALSE, status |-> 400,
          body |-> ErrorBody("Bad Request", "Missing required field: url")]
    ELSE IF body.validity # Undefined
            /\ (ParseInt(body.validity[1]) = Undefined \/ ParseInt(body.validity[1])[1] <= 0)
    THEN [next |-> FALSE, status |-> 400,
          body |-> ErrorBody("Bad Request",
                             "Validity must be a positive integer representing minutes")]
    ELSE [next |-> TRUE,
          body |-> [body EXCEPT !.validity = IF @ = Undefined THEN @ ELSE ParseInt(@[1])]]

\* the catch block of POST /shorturls
CreateErrorResponse(store, message) ==
    IF Includes(message, "Invalid URL format")
    THEN Response(store, "createShortUrl", 400, ErrorBody("Bad Request", "Invalid URL format"))
    ELSE IF Includes(message, "shortcode already exists")
            \/ Includes(message, "Shortcode collision")
    THEN Response(store, "createShortUrl", 409, ErrorBody("Conflict", "Shortcode already exists"))
    ELSE IF Includes(message, "Invalid shortcode format")
    THEN Response(store, "createShortUrl", 400,
                  ErrorBody("Bad Request",
                            "Invalid shortcode format. Must be alphanumeric and up to 20 characters"))
    ELSE Response(store, "createShortUrl", 500,
                  ErrorBody("Internal Server Error", "Failed to create short URL"))

\* the response of POST /shorturls once createShortURL has returned or thrown
CreateResponse(store, out, shortcode, url) ==
    IF out.threw
    THEN CreateErrorResponse(store, out.message)
    ELSE [Response(out, "createShortUrl", 201, out.value)
             EXCEPT !.created = Some([shortcode |-> shortcode, originalUrl |-> url])]

\* urlStore.createShortURL(url, validity, shortcode) of the handler, validity = 30
\* when the body holds none
CreateHandlerCall(store, t, body, generated) ==
    createShortURL(store, t, body.url[1],
                   Some(IF body.validity = Undefined
                        THEN RouteDefaultValidity ELSE body.validity[1]),
                   body.shortcode, generated)

\* the handler of POST /shorturls, on the body the middleware passed on
CreateHandler(store, t, body, generated) ==
    CreateResponse(store, CreateHandlerCall(store, t, body, generated),
                   Allocated(body.shortcode, generated), body.url[1])

\* the middleware answers, or calls next() and the handler answers
AfterValidation(store, t, checked, generated) ==
    IF ~checked.next
    THEN Response(store, "createShortUrl", checked.status, checked.body)
    ELSE CreateHandler(store, t, checked.body, generated)

\* app.post('/shorturls', validateCreateURLInput, ...)
PostShorturls(store, t, body, generated) ==
    AfterValidation(store, t, validateCreateURLInput(body), generated)

\* faulty variant: the click is recorded before the code is resolved
Redirect_RecordsThenResolves(store, t, shortcode, client) ==
    IF getOriginalURL(store, t, shortcode) = Undefined
    THEN Response(recordClick(store, t, shortcode, client.referrer, client.userAgent,
                              client.ip),
                  "redirect", 404,
                  ErrorBody("Not Found", "Short URL not found or has expired"))
    ELSE [Response(recordClick(store, t, shortcode, client.referrer, client.userAgent,
                               client.ip),
                   "redirect", 302,
                   [location |-> getOriginalURL(store, t, shortcode)[1].originalUrl])
             EXCEPT !.clicked = Some(shortcode)]

\* app.get('/:shortcode', ...)
Redirect(store, t, shortcode, client) ==
    LET urlData == getOriginalURL(store, t, shortcode)
    IN  IF urlData = Undefined
        THEN Response(store, "redirect", 404,
                      ErrorBody("Not Found", "Short URL not found or has expired"))
        ELSE [Response(recordClick(store, t, shortcode, client.referrer, client.userAgent,
                                   client.ip),
                       "redirect", 302, [location |-> urlData[1].originalUrl])
                 EXCEPT !.clicked = Some(shortcode)]

\* app.get('/shorturls/:shortcode', ...)
Statistics(store, shortcode) ==
    LET found == getAnalytics(store, shortcode)
    IN  IF found = Undefined
        THEN Response(store, "statistics", 404, ErrorBody("Not Found", "Short URL not found"))
        ELSE Response(store, "statistics", 200, found[1])

RECURSIVE SumClicks(_)
SumClicks(list) ==
    IF list = <<>> THEN 0 ELSE Head(list).totalClicks + SumClicks(Tail(list))

\* faulty variant: expired records are left out of the totals
AllStatistics_ActiveOnly(store) ==
    Response(store, "allStatistics", 200,
             [urls |-> getAllURLs(store),
              totalUrls |-> Cardinality({i \in DOMAIN store.urls :
                                           getOriginalURL(store, now, store.urls[i].key)
                                               # Undefined}),
              totalClicks |-> SumClicks(getAllURLs(store))])

\* app.get('/api/statistics', ...)
AllStatistics(store) ==
    LET allUrls == getAllURLs(store)
    IN  Response(store, "allStatistics", 200,
                 [urls |-> allUrls, totalUrls |-> Len(allUrls),
                  totalClicks |-> SumClicks(allUrls)])

\* app.get('/health', ...); the process started at time 0 and process.uptime()
\* counts seconds
Health(store, t) ==
    Response(store, "health", 200,
             [status |-> "healthy", timestamp |-> ToISOString(t), uptime |-> t \div 1000])

\* app.use('*', ...)
RouteNotFound(store) ==
    Response(store, "notFound", 404, ErrorBody("Not Found", "Route not found"))

\* one request through the application
Dispatch(handler, store, t, path, body, client, generated) ==
    CASE handler = "createShortUrl" -> PostShorturls(store, t, body, generated)
      [] handler = "redirect"       -> Redirect(store, t, path[1], client)
      [] handler = "statistics"     -> Statistics(store, path[2])
      [] handler = "allStatistics"  -> AllStatistics(store)
      [] handler = "health"         -> Health(store, t)
      [] OTHER                      -> RouteNotFound(store)

Handle(store, t, method, path, body, client, generated) ==
    Dispatch(Route(method, path), store, t, path, body, client, generated)

\* the state after a request, and the request and its response in last
Served(method, path, body, out) ==
    /\ urls' = out.urls
    /\ analytics' = out.analytics
    /\ last' = [op |-> "http", method |-> method, path |-> path, body |-> body,
                handler |-> out.handler, status |-> out.status, response |-> out.body]
    /\ given' = IF out.created = Undefined THEN given
                ELSE GivenAfter(given, out.created[1].shortcode, out.created[1].originalUrl)
    /\ clickCalls' = IF out.created # Undefined
                     THEN CallsAfterCreate(clickCalls, out.created[1].shortcode)
                     ELSE IF out.clicked # Undefined
                     THEN CallsAfterClick(clickCalls, out.clicked[1])
                     ELSE clickCalls
    /\ UNCHANGED now

HttpPost ==
    \E body \in HttpBodies :
      \E generated \in Generated(body.shortcode) :
        \E out \in {Handle(Store, now, "POST", <<"shorturls">>, body, Undefined, generated)} :
            /\ LoopExit(Store, body.shortcode, generated)
            /\ out.created # Undefined => Len(urls) < MaxUrls
            /\ Served("POST", <<"shorturls">>, body, out)
            /\ UNCHANGED <<requests, running, pageVars>>

HttpGet ==
    \E path \in HttpPaths, client \in HttpClients :
        \E out \in {Handle(Store, now, "GET", path, Undefined, client, "")} :
            /\ out.clicked # Undefined =>
                  MapGet(analytics, out.clicked[1]).totalClicks < MaxClicks
            /\ Served("GET", path, Undefined, out)
            /\ UNCHANGED <<requests, running, pageVars>>

HttpNext ==
    \/ HttpPost
    \/ HttpGet
    \/ Tick

HttpSpec == Init /\ [][HttpNext]_vars

-----------------------------------------------------------------------------
(* Concurrent POST /shorturls requests.  Node runs one callback at a time: the *)
(* body of a request is read asynchronously by express.json(), so requests     *)
(* that are in flight together reach their handlers in any order, and then the *)
(* middleware, the handler and the createShortURL call it makes, which hold no *)
(* await and no callback, run to completion before another handler starts.     *)

\* bodies of the concurrent requests: two name the same custom code
ConcBodies ==
    {[url |-> Some("http://a.io"), validity |-> Some([num |-> 1]), shortcode |-> Some("abc123")],
     [url |-> Some("ftp://b.io/x"), validity |-> Undefined, shortcode |-> Some("abc123")],
     [url |-> Some("http://a.io"), validity |-> Undefined, shortcode |-> Undefined]}

\* what the createShortURL call of the handler did, if the middleware let it run
StoreOutcome(store, t, checked, generated) ==
    IF ~checked.next
    THEN [called |-> FALSE, threw |-> FALSE, message |-> ""]
    ELSE [called  |-> TRUE,
          threw   |-> CreateHandlerCall(store, t, checked.body, generated).threw,
          message |-> IF CreateHandlerCall(store, t, checked.body, generated).threw
                      THEN CreateHandlerCall(store, t, checked.body, generated).message
                      ELSE ""]

\* the server receives a request; its body is being read
Receive ==
    \E body \in ConcBodies :
        /\ Len(requests) < MaxRequests
        /\ requests' = Append(requests, [body |-> body, outcome |-> Undefined])
        /\ UNCHANGED <<urls, analytics, now, last, given, clickCalls, running, pageVars>>

\* the body of a request has been read: its middleware and handler run
RunHandler ==
    \E i \in DOMAIN requests :
      \E generated \in Generated(requests[i].body.shortcode) :
        \E out \in {PostShorturls(Store, now, requests[i].body, generated)},
           call \in {StoreOutcome(Store, now, validateCreateURLInput(requests[i].body),
                                  generated)} :
            /\ requests[i].outcome = Undefined
            /\ LoopExit(Store, requests[i].body.shortcode, generated)
            /\ out.created # Undefined => Len(urls) < MaxUrls
            /\ Served("POST", <<"shorturls">>, requests[i].body, out)
            /\ requests' = [requests EXCEPT ![i].outcome =
                               Some([status    |-> out.status,
                                     threw     |-> call.threw,
                                     message   |-> call.message,
                                     shortcode |-> IF out.created = Undefined THEN Undefined
                                                   ELSE Some(out.created[1].shortcode)])]
            /\ UNCHANGED <<running, pageVars>>

ConcNext ==
    \/ Receive
    \/ RunHandler
    \/ Tick

ConcSpec == Init /\ [][ConcNext]_vars

-----------------------------------------------------------------------------
(* The do-while loop of createShortURL, one iteration at a time.  The call is  *)
(* synchronous: while it is inside the loop no other method of the store runs; *)
(* only the clock moves.                                                       *)

\* the call goes through lines 16-25 into the else branch of line 39
EntersLoop(originalUrl, customShortcode) ==
    NewURL(originalUrl) /\ ~Truthy(customShortcode)

\* createShortURL is called: it throws or returns at once, or enters the loop
BeginCreate ==
    /\ running = Undefined
    /\ \E originalUrl \in Urls, validity \in Validities, customShortcode \in CustomCodes :
          IF EntersLoop(originalUrl, customShortcode)
          THEN /\ running' = Some([originalUrl |-> originalUrl, validity |-> validity,
                                   customShortcode |-> customShortcode,
                                   shortcode |-> Undefined])
               /\ last' = [op |-> "none"]
               /\ UNCHANGED <<urls, analytics, now, given, clickCalls, requests, pageVars>>
          ELSE /\ CreateWith(originalUrl, validity, customShortcode, "")
               /\ UNCHANGED running

\* an iteration draws a code that is in the urls map: the loop goes on
LoopRetries ==
    /\ running # Undefined
    /\ \E generated \in NanoidOutputs :
          /\ ~LoopExit(Store, running[1].customShortcode, generated)
          /\ running' = Some([running[1] EXCEPT !.shortcode = Some(generated)])
    /\ UNCHANGED <<urls, analytics, now, last, given, clickCalls, requests, pageVars>>

\* an iteration draws a code that ends the loop: the call stores it and returns
LoopExits ==
    /\ running # Undefined
    /\ \E generated \in NanoidOutputs :
          CreateWith(running[1].originalUrl, running[1].validity,
                     running[1].customShortcode, generated)
    /\ running' = Undefined

LoopRecordClick == running = Undefined /\ RecordClick

LoopNext ==
    \/ BeginCreate
    \/ LoopRetries
    \/ LoopExits
    \/ LoopRecordClick
    \/ Tick

LoopSpec == Init /\ [][LoopNext]_vars

\* nanoid draws its characters at random: a code that is free is drawn sooner or later
LoopFairSpec == LoopSpec /\ WF_vars(LoopExits)

-----------------------------------------------------------------------------
(* Click sequences: one code, created once, clicked several times by          *)
(* different callers while the clock moves.                                   *)

ClickCreate ==
    CreateWith("http://a.io", Some(1), Some("abc123"), "") /\ UNCHANGED running

ClickRecord ==
    \E shortcode \in {"abc123", "zzz"}, client \in ClickClients :
        /\ MapHas(analytics, shortcode) =>
              MapGet(analytics, shortcode).totalClicks < MaxClickEvents
        /\ RecordClickWith(shortcode, client)

ClickNext ==
    \/ ClickCreate
    \/ ClickRecord
    \/ GetAnalytics
    \/ Tick

ClickSpec == Init /\ [][ClickNext]_vars

-----------------------------------------------------------------------------
(* StatisticsPage and AnalyticsDetails (unnamed/part_001): the row of a code  *)
(* is expanded with the analytics GET /shorturls/:shortcode returns, and the  *)
(* panel under the row lists clicks of it.  The server answers the fetch in   *)
(* the step in which the button is clicked.                                   *)

\* the number of clicks the panel lists
PanelSize == 10

\* AnalyticsDetails: the entries analytics.clicks.slice(0, 10) lists, in the order shown
ShownClicks(a) ==
    SubSeq(a.clicks, 1, IF Len(a.clicks) < PanelSize THEN Len(a.clicks) ELSE PanelSize)

\* AnalyticsDetails: the note "Showing latest 10 clicks out of n total." is shown
ShowsLatestNote(a) == Len(a.clicks) > PanelSize

\* fetchDetailedAnalytics: the body of the answer when it is ok, or null
fetchDetailedAnalytics(store, t, shortcode) ==
    LET out == Handle(store, t, "GET", <<"shorturls", shortcode>>, Undefined,
                      [referrer |-> "", userAgent |-> "Mozilla/5.0", ip |-> "127.0.0.1"], "")
    IN  IF out.status \in 200..299 THEN Some(out.body) ELSE Undefined

\* expandedRows[shortcode] is truthy
IsExpanded(rows, shortcode) == MapHas(rows, shortcode) /\ MapGet(rows, shortcode) # Undefined

\* toggleRowExpansion
toggleRowExpansion(rows, store, t, shortcode) ==
    IF IsExpanded(rows, shortcode)
    THEN MapSet(rows, shortcode, Undefined)
    ELSE MapSet(rows, shortcode, fetchDetailedAnalytics(store, t, shortcode))

\* the "+" / "-" button of a row: the row is listed by the statistics fetched at that
\* time, and the button is disabled while they count no click
ToggleRowExpansion ==
    \E shortcode \in {"abc123"} :
        /\ MapHas(urls, shortcode)
        /\ MapHas(analytics, shortcode) /\ MapGet(analytics, shortcode).totalClicks # 0
        /\ expandedRows' = toggleRowExpansion(expandedRows, Store, now, shortcode)
        /\ UNCHANGED <<urls, analytics, now, last, given, clickCalls, requests, running>>
        /\ UNCHANGED <<urlForms, shortenedUrls, errors, fetches>>

PanelRecord ==
    \E client \in Clients :
        /\ MapHas(analytics, "abc123")
        /\ MapGet(analytics, "abc123").totalClicks < MaxPanelClicks
        /\ RecordClickWith("abc123", client)

PanelNext ==
    \/ ClickCreate
    \/ PanelRecord
    \/ ToggleRowExpansion
    \/ Tick

PanelSpec == Init /\ [][PanelNext]_vars

-----------------------------------------------------------------------------
(* URLShortenerPage (unnamed/part_001).  A handler of the component reads the  *)
(* urlForms and errors of the render that created it (its closure c) and      *)
(* calls setUrlForms / setErrors with plain values: the call made last sets   *)
(* the state.  Only setShortenedUrls is called with an updater function,      *)
(* which is applied to the state of that time.  An operator below takes the   *)
(* closure c and the page state s its calls are applied to, and gives the     *)
(* page state after them.  React renders after each event, so the handler of  *)
(* a user event has the present state as its closure; the part of shortenUrl  *)
(* that runs after the await has the closure of the render whose button was   *)
(* clicked.                                                                   *)

\* the largest number of forms
MaxForms == 5

\* what the user types
FormUrls == {"http://a.io", "a"}
FormValidities == {[str |-> "5"]}
FormShortcodes == {"abc123"}

\* what the server answers to POST /shorturls: 201 with a short link, another status
\* with a message, or nothing (fetch rejects)
FetchOutcomes ==
    {[kind |-> "ok", shortLink |-> "http://localhost:3000/abc123",
      expiry |-> ToISOString(1800000)],
     [kind |-> "error", message |-> Some(CollisionMessage)],
     [kind |-> "rejected"]}

\* { id, url: '', validity: 30, shortcode: '', loading: false }
BlankForm(id) ==
    [id |-> id, url |-> "", validity |-> [num |-> 30], shortcode |-> "", loading |-> FALSE]

PageState == [urlForms |-> urlForms, shortenedUrls |-> shortenedUrls, errors |-> errors]

\* the errors object: a function from form ids to [url, validity, shortcode, general],
\* a message that is null or missing being Undefined
NoErrors == [url |-> Undefined, validity |-> Undefined, shortcode |-> Undefined,
             general |-> Undefined]

\* { ...errs, [id]: e }
WithError(errs, id, e) ==
    [k \in DOMAIN errs \cup {id} |-> IF k = id THEN e ELSE errs[k]]

\* delete errs[id]
WithoutError(errs, id) == [k \in DOMAIN errs \ {id} |-> errs[k]]

\* errs[id]?.[field] is truthy
HasError(errs, id, field) == id \in DOMAIN errs /\ errs[id][field] # Undefined

validateUrl(url) == IF NewURL(url) THEN Undefined ELSE Some("Please enter a valid URL")

validateValidity(validity) ==
    IF ParseInt(validity) = Undefined \/ ParseInt(validity)[1] <= 0
    THEN Some("Validity must be a positive integer")
    ELSE Undefined

\* /^[a-zA-Z0-9]{1,20}$/ fails on a non-empty shortcode
validateShortcode(shortcode) ==
    IF shortcode # ""
       /\ ~(/\ Len(Chars(shortcode)) \in 1..20
            /\ \A i \in DOMAIN Chars(shortcode) : Chars(shortcode)[i] \in Letters \cup Digits)
    THEN Some("Shortcode must be alphanumeric and up to 20 characters")
    ELSE Undefined

addUrlForm(c, s, t) ==
    IF Len(c.urlForms) < MaxForms
    THEN [s EXCEPT !.urlForms = Append(c.urlForms, BlankForm(t))]
    ELSE s

removeUrlForm(c, s, id) ==
    IF Len(c.urlForms) > 1
    THEN [s EXCEPT !.urlForms = SelectSeq(c.urlForms, LAMBDA form : form.id # id),
                   !.errors = WithoutError(c.errors, id)]
    ELSE s

updateForm(c, s, id, field, value) ==
    [s EXCEPT !.urlForms = [i \in DOMAIN c.urlForms |->
                               IF c.urlForms[i].id = id
                               THEN [c.urlForms[i] EXCEPT ![field] = value]
                               ELSE c.urlForms[i]],
              !.errors = IF HasError(c.errors, id, field)
                         THEN WithError(c.errors, id, [c.errors[id] EXCEPT ![field] = Undefined])
                         ELSE s.errors]

setFormLoading(c, s, id, loading) ==
    [s EXCEPT !.urlForms = [i \in DOMAIN c.urlForms |->
                               IF c.urlForms[i].id = id
                               THEN [c.urlForms[i] EXCEPT !.loading = loading]
                               ELSE c.urlForms[i]]]

\* shortenUrl: the validation passes and the request is sent
PassesValidation(formData) ==
    /\ validateUrl(formData.url) = Undefined
    /\ validateValidity(formData.validity) = Undefined
    /\ validateShortcode(formData.shortcode) = Undefined

\* shortenUrl up to its await
shortenUrl(c, s, formData) ==
    IF PassesValidation(formData)
    THEN setFormLoading(c, s, formData.id, TRUE)
    ELSE [s EXCEPT !.errors =
            WithError(c.errors, formData.id,
                      [url |-> validateUrl(formData.url),
                       validity |-> validateValidity(formData.validity),
                       shortcode |-> validateShortcode(formData.shortcode),
                       general |-> Undefined])]

\* shortenUrl from the answer of the server on: the try block after the awaits, the
\* catch block when fetch rejects, and the finally block
shortenUrlResumes(c, s, formData, outcome, t) ==
    IF outcome.kind = "ok"
    THEN setFormLoading(c,
             [updateForm(c, updateForm(c, updateForm(c, s, formData.id, "url", ""),
                                       formData.id, "validity", [num |-> 30]),
                         formData.id, "shortcode", "")
                 EXCEPT !.shortenedUrls =
                            <<[id |-> t, originalUrl |-> formData.url,
                               shortLink |-> outcome.shortLink,
                               expiry |-> outcome.expiry,
                               createdAt |-> ToISOString(t)]>> \o s.shortenedUrls,
                        !.errors = WithoutError(c.errors, formData.id)],
             formData.id, FALSE)
    ELSE IF outcome.kind = "error"
    THEN setFormLoading(c,
             [s EXCEPT !.errors =
                 WithError(c.errors, formData.id,
                           [NoErrors EXCEPT !.general =
                               IF outcome.message # Undefined /\ outcome.message[1] # ""
                               THEN outcome.message
                               ELSE Some("Something went wrong while creating the short URL")])],
             formData.id, FALSE)
    ELSE setFormLoading(c,
             [s EXCEPT !.errors =
                 WithError(c.errors, formData.id,
                           [NoErrors EXCEPT !.general =
                               Some("Unable to connect to the server. Please check your connection and try again.")])],
             formData.id, FALSE)

\* the page after an event
Rendered(s) ==
    /\ urlForms' = s.urlForms
    /\ shortenedUrls' = s.shortenedUrls
    /\ errors' = s.errors
    /\ UNCHANGED <<urls, analytics, now, last, given, clickCalls, requests, running>>
    /\ UNCHANGED expandedRows

\* the button "+ Add Another URL", shown while there are fewer than 5 forms
AddUrlForm ==
    /\ Len(urlForms) < MaxForms
    /\ Rendered(addUrlForm(PageState, PageState, now))
    /\ UNCHANGED fetches

\* the remove button of form i, shown while there is more than one form and disabled
\* while the form is loading
RemoveUrlFormAt(i) ==
    /\ Len(urlForms) > 1
    /\ ~urlForms[i].loading
    /\ Rendered(removeUrlForm(PageState, PageState, urlForms[i].id))
    /\ UNCHANGED fetches

\* typing in an input of form i; the inputs are disabled while the form is loading
UpdateFormAt(i, field, value) ==
    /\ ~urlForms[i].loading
    /\ Rendered(updateForm(PageState, PageState, urlForms[i].id, field, value))
    /\ UNCHANGED fetches

\* the Shorten button of form i, disabled while the url is empty or the form is
\* loading; when the validation passes the request is sent and the call waits
ShortenAt(i) ==
    /\ urlForms[i].url # ""
    /\ ~urlForms[i].loading
    /\ Rendered(shortenUrl(PageState, PageState, urlForms[i]))
    /\ fetches' = IF PassesValidation(urlForms[i])
                  THEN Append(fetches, [formData |-> urlForms[i], urlForms |-> urlForms,
                                        errors |-> errors])
                  ELSE fetches

\* the shortenUrl call k gets its answer and runs to its end
ShortenCompletesAt(k, outcome) ==
    /\ Rendered(shortenUrlResumes([urlForms |-> fetches[k].urlForms,
                                   errors |-> fetches[k].errors],
                                  PageState, fetches[k].formData, outcome, now))
    /\ fetches' = SubSeq(fetches, 1, k - 1) \o SubSeq(fetches, k + 1, Len(fetches))

\* The page with a few forms, whose requests are answered in any order.  The user
\* types a url in any form, and a validity and a shortcode in the form the page
\* starts with; the events happen at one time of the clock.
PageAdd == Len(urlForms) < MaxPageForms /\ AddUrlForm

PageRemove == \E i \in DOMAIN urlForms : RemoveUrlFormAt(i)

PageUpdate ==
    \E i \in DOMAIN urlForms :
        \/ \E value \in FormUrls : UpdateFormAt(i, "url", value)
        \/ \E value \in FormValidities :
              urlForms[i].id = 1 /\ UpdateFormAt(i, "validity", value)
        \/ \E value \in FormShortcodes :
              urlForms[i].id = 1 /\ UpdateFormAt(i, "shortcode", value)

PageShorten ==
    \E i \in DOMAIN urlForms :
        /\ Len(fetches) + Len(shortenedUrls) < MaxShortens
        /\ ShortenAt(i)

PageCompletes ==
    \E k \in DOMAIN fetches, outcome \in FetchOutcomes : ShortenCompletesAt(k, outcome)

PageNext ==
    \/ PageAdd
    \/ PageRemove
    \/ PageUpdate
    \/ PageShorten
    \/ PageCompletes

PageSpec == Init /\ [][PageNext]_vars

\* The page with up to MaxForms forms, added and removed while the clock moves; the
\* user types a url in the form the page starts with and sends few requests.
FormsUpdate ==
    \E i \in DOMAIN urlForms :
        urlForms[i].id = 1 /\ UpdateFormAt(i, "url", "http://a.io")

FormsShorten ==
    \E i \in DOMAIN urlForms :
        /\ Len(fetches) + Len(shortenedUrls) < MaxFormsShortens
        /\ ShortenAt(i)

FormsNext ==
    \/ AddUrlForm
    \/ PageRemove
    \/ FormsUpdate
    \/ FormsShorten
    \/ PageCompletes
    \/ Tick

FormsSpec == Init /\ [][FormsNext]_vars

-----------------------------------------------------------------------------
(* Properties of the URLStore, checked under Spec *)

IsCreate(l) == l.op = "createShortURL"

ExpiryOf(shortcode) == DateParse(MapGet(urls, shortcode).expiryDate)

\* a POST /shorturls request whose body passes validation, holds a URL that
\* parses and names a well-formed custom code
IsWellFormedCustomPost(l) ==
    /\ l.op = "http"
    /\ l.method = "POST"
    /\ l.path = <<"shorturls">>
    /\ validateCreateURLInput(l.body).next
    /\ NewURL(l.body.url[1])
    /\ l.body.shortcode # Undefined
    /\ ShortcodeRegexTest(l.body.shortcode[1])

\* C1: POST /shorturls with a valid URL and a well-formed custom code that is in
\* the store is answered with status 409 and changes neither map of the store.
C1_CollisionAnswered409 ==
    [][(IsWellFormedCustomPost(last') /\ MapHas(urls, last'.body.shortcode[1]))
          => /\ last'.status = 409
             /\ urls' = urls
             /\ analytics' = analytics]_vars

\* C2: GET /health is answered by the health handler with status 200 and a body
\* of status, timestamp and uptime, never by the redirect handler.
C2_HealthAnsweredByHealth ==
    (last.op = "http" /\ last.method = "GET" /\ last.path = <<"health">>)
        => /\ last.handler = "health"
           /\ last.status = 200
           /\ DOMAIN last.response = {"status", "timestamp", "uptime"}

\* C3: every short code that is a key of the store, custom or generated,
\* matches [A-Za-z0-9]{1,20}.
C3_KeysAlphanumeric ==
    \A k \in MapKeys(urls) : ShortcodeRegexTest(k)

\* C4: a create call that is given a custom code not matching [A-Za-z0-9]{1,20}
\* (the empty string included), with a URL that parses, throws the invalid
\* shortcode format error and allocates nothing.
C4_MalformedCustomCodeRejected ==
    (/\ IsCreate(last)
     /\ last.customShortcode # Undefined
     /\ ~ShortcodeRegexTest(last.customShortcode[1])
     /\ NewURL(last.originalUrl))
        => (last.threw /\ last.message = InvalidShortcodeMessage)

C6_FailedCreateChangesNothing ==
    [][(IsCreate(last') /\ last'.threw)
          => (urls' = urls /\ analytics' = analytics)]_vars

\* a create call has thrown on a store that holds records
C6_Witness ==
    /\ IsCreate(last)
    /\ last.threw
    /\ last.message = InvalidShortcodeMessage
    /\ Len(urls) > 0

\* C7: the expiry of every record is its creation time plus validity minutes,
\* and a create call returns the expiry it stored.
C7_ExpiryIsCreationPlusValidity ==
    /\ \A i \in DOMAIN urls :
          DateParse(urls[i].val.expiryDate)
              = DateParse(urls[i].val.createdAt) + urls[i].val.validity * 60 * 1000
    /\ (IsCreate(last) /\ ~last.threw)
          => last.value[1].expiry = MapGet(urls, last.shortcode[1]).expiryDate

\* a create call has returned, at a time other than 0
C7_Witness ==
    /\ IsCreate(last)
    /\ ~last.threw
    /\ now > 0
    /\ MapGet(urls, last.shortcode[1]).createdAt = ToISOString(now)

\* C8: getOriginalURL returns nothing exactly when the code is not in the store
\* or the time is past the expiry of its record; otherwise it returns the
\* stored record, whose original URL is the one given to the create call that
\* allocated the code.
C8_ResolveIffPresentAndNotExpired ==
    last.op = "getOriginalURL"
        => /\ (last.value = Undefined)
                  <=> (\/ ~MapHas(urls, last.shortcode)
                       \/ now > ExpiryOf(last.shortcode))
           /\ last.value # Undefined
                  => /\ last.value[1] = MapGet(urls, last.shortcode)
                     /\ last.value[1].originalUrl = given[last.shortcode]

\* a code is resolved at the very time of its expiry
C8_Witness ==
    /\ last.op = "getOriginalURL"
    /\ last.value # Undefined
    /\ now = ExpiryOf(last.shortcode)

\* C9: getAnalytics returns the analytics of every code that was ever created,
\* also after its expiry, and nothing only for codes never created.
C9_AnalyticsForEveryCreatedCode ==
    last.op = "getAnalytics"
        => /\ (last.value = Undefined) <=> (last.shortcode \notin DOMAIN given)
           /\ last.value # Undefined
                  => /\ last.value[1].shortcode = last.shortcode
                     /\ last.value[1].originalUrl = given[last.shortcode]

\* the analytics of an expired code are returned
C9_Witness ==
    /\ last.op = "getAnalytics"
    /\ last.value # Undefined
    /\ now > ExpiryOf(last.shortcode)
    /\ getOriginalURL(Store, now, last.shortcode) = Undefined

\* C10: the click count of every code equals the number of recordClick calls
\* made on it, and so does the length of its click sequence.
C10_ClickCountIsNumberOfCalls ==
    /\ \A c \in DOMAIN clickCalls :
          /\ MapHas(analytics, c)
          /\ MapGet(analytics, c).totalClicks = clickCalls[c]
          /\ Len(MapGet(analytics, c).clicks) = clickCalls[c]
    /\ \A i \in DOMAIN analytics :
          analytics[i].val.totalClicks = Len(analytics[i].val.clicks)

\* clicks were recorded on a code and another operation ran afterwards
C10_Witness ==
    /\ \E c \in DOMAIN clickCalls : clickCalls[c] = MaxClicks
    /\ last.op # "recordClick"
    /\ Len(urls) > 1

\* C11: a recordClick call on a code changes no URL record and no analytics
\* record of another code, and getAllURLs reports for every code the number of
\* recordClick calls made on that very code: 0 for a code until it is clicked.
C11_ClickTouchesOnlyItsCode ==
    [][/\ last'.op = "recordClick"
          => /\ urls' = urls
             /\ MapKeys(analytics') = MapKeys(analytics)
             /\ \A i \in DOMAIN analytics :
                   analytics[i].key # last'.shortcode => analytics'[i] = analytics[i]
       /\ last'.op = "getAllURLs"
          => \A i \in DOMAIN last'.value :
                last'.value[i].totalClicks = clickCalls[last'.value[i].shortcode]]_vars

\* getAllURLs lists two codes, one clicked once and one never clicked
C11_Witness ==
    /\ last.op = "getAllURLs"
    /\ \E i, j \in DOMAIN last.value :
          /\ last.value[i].totalClicks = 1
          /\ last.value[j].totalClicks = 0
          /\ clickCalls[last.value[i].shortcode] = 1

\* a GET request that the redirect route answers
IsRedirectRequest(l) ==
    l.op = "http" /\ l.method = "GET" /\ l.handler = "redirect"

TotalClicks(m, shortcode) == MapGet(m, shortcode).totalClicks

\* C12: GET /:shortcode answers 302 to the original URL and appends exactly one
\* click when the code is in the store and not expired, and answers 404 and
\* records nothing otherwise; the click count of every code is the number of 302
\* responses issued for it, and no request changes the analytics of a code after
\* its expiry.
C12_ClickOnlyWithRedirect ==
    [][/\ IsRedirectRequest(last')
          => LET c == last'.path[1]
             IN  /\ urls' = urls
                 /\ IF MapHas(urls, c) /\ ~(now > ExpiryOf(c))
                    THEN /\ last'.status = 302
                         /\ last'.response = [location |-> MapGet(urls, c).originalUrl]
                         /\ TotalClicks(analytics', c) = TotalClicks(analytics, c) + 1
                         /\ Len(MapGet(analytics', c).clicks)
                               = Len(MapGet(analytics, c).clicks) + 1
                         /\ \A i \in DOMAIN analytics :
                               analytics[i].key # c => analytics'[i] = analytics[i]
                    ELSE /\ last'.status = 404
                         /\ analytics' = analytics
       /\ \A i \in DOMAIN analytics' :
             /\ analytics'[i].val.totalClicks = clickCalls'[analytics'[i].key]
             /\ Len(analytics'[i].val.clicks) = clickCalls'[analytics'[i].key]
       /\ \A i \in DOMAIN analytics :
             now > ExpiryOf(analytics[i].key) => analytics'[i] = analytics[i]]_vars

\* a code that was redirected once is requested after its expiry and answered 404
C12_Witness ==
    /\ IsRedirectRequest(last)
    /\ last.status = 404
    /\ MapHas(urls, last.path[1])
    /\ now > ExpiryOf(last.path[1])
    /\ TotalClicks(analytics, last.path[1]) = 1
    /\ clickCalls[last.path[1]] = 1

\* the sum of the click counts of the analytics records of a map
ClicksInStore(m) == SumClicks([i \in DOMAIN m |-> m[i].val])

IsCreated(l) == l.op = "http" /\ l.method = "POST" /\ l.status = 201

IsRedirected(l) == IsRedirectRequest(l) /\ l.status = 302

\* C13: GET /api/statistics reports as totalUrls the number of records created so
\* far, expired ones included, and as totalClicks the sum of the click counts of
\* all codes, which is the number of clicks recorded so far: the first grows by
\* one with every 201 response and the second with every 302 response, and
\* neither changes otherwise.
C13_StatisticsTotals ==
    [][/\ last'.op = "http" /\ last'.handler = "allStatistics"
          => /\ last'.status = 200
             /\ DOMAIN last'.response = {"urls", "totalUrls", "totalClicks"}
             /\ last'.response.totalUrls = Len(urls)
             /\ last'.response.totalUrls = Cardinality(DOMAIN given)
             /\ Len(last'.response.urls) = Len(urls)
             /\ last'.response.totalClicks = ClicksInStore(analytics)
       /\ Len(urls') = Len(urls) + IF IsCreated(last') THEN 1 ELSE 0
       /\ ClicksInStore(analytics')
             = ClicksInStore(analytics) + IF IsRedirected(last') THEN 1 ELSE 0]_vars

\* statistics of two records, one of them expired, and one recorded click
C13_Witness ==
    /\ last.op = "http"
    /\ last.handler = "allStatistics"
    /\ last.response.totalUrls = 2
    /\ last.response.totalClicks = 1
    /\ \E i \in DOMAIN urls : now > ExpiryOf(urls[i].key)

\* a JSON value that is a positive integer: a positive number (the numbers of the
\* inputs are integers), or a string of digits only that writes one
IsPositiveInteger(v) ==
    IF "num" \in DOMAIN v
    THEN v.num > 0
    ELSE /\ Len(Chars(v.str)) > 0
         /\ \A i \in DOMAIN Chars(v.str) : Chars(v.str)[i] \in Digits
         /\ DecimalValue(Chars(v.str), 1, Len(Chars(v.str))) > 0

IsPostShorturls(l) == l.op = "http" /\ l.method = "POST" /\ l.path = <<"shorturls">>

\* C14: POST /shorturls without a url, or with a validity that is not a positive
\* integer, is answered 400 and leaves the store as it was; every record of the
\* store has a positive validity (30 when the request named none) and an expiry
\* later than its creation.
C14_InvalidInputAnswered400 ==
    [][/\ (/\ IsPostShorturls(last')
           /\ \/ last'.body.url = Undefined
              \/ last'.body.url[1] = ""
              \/ /\ last'.body.validity # Undefined
                 /\ ~IsPositiveInteger(last'.body.validity[1]))
          => /\ last'.status = 400
             /\ urls' = urls
             /\ analytics' = analytics
       /\ (IsCreated(last') /\ last'.body.validity = Undefined)
          => urls'[Len(urls')].val.validity = 30
       /\ \A i \in DOMAIN urls' :
             /\ urls'[i].val.validity > 0
             /\ DateParse(urls'[i].val.expiryDate) > DateParse(urls'[i].val.createdAt)]_vars

\* C16: the urls map and the analytics map have the same keys after every step;
\* no step removes a key, and no step changes the URL record of a code that is
\* in the store (original URL, creation, expiry, validity).
C16_SameKeysAndRecordsKept ==
    [][/\ MapKeys(urls') = MapKeys(analytics')
       /\ Len(urls') = Cardinality(MapKeys(urls'))
       /\ Len(analytics') = Cardinality(MapKeys(analytics'))
       /\ MapKeys(urls) \subseteq MapKeys(urls')
       /\ \A c \in MapKeys(urls) : MapGet(urls', c) = MapGet(urls, c)]_vars

\* two codes, one of them clicked and expired, and a create call that just failed
C16_Witness ==
    /\ Len(urls) = 2
    /\ \E i \in DOMAIN urls :
          /\ now > ExpiryOf(urls[i].key)
          /\ TotalClicks(analytics, urls[i].key) = 1
    /\ IsCreate(last)
    /\ last.threw

\* getOriginalURL has just been called on the code c
IsResolveOf(c) == last.op = "getOriginalURL" /\ last.shortcode = c

\* C19: once getOriginalURL has returned nothing for a code that is in the store,
\* which it does only when the code has expired, every later getOriginalURL of
\* that code returns nothing; until then each one returns the record.
C19_ExpiredIsAbsorbing ==
    \A c \in QueryCodes :
        /\ []((IsResolveOf(c) /\ MapHas(urls, c) /\ last.value = Undefined)
                 => /\ now > ExpiryOf(c)
                    /\ [](IsResolveOf(c) => last.value = Undefined))
        /\ []((IsResolveOf(c) /\ MapHas(urls, c) /\ ~(now > ExpiryOf(c)))
                 => last.value = Some(MapGet(urls, c)))

\* a code that was clicked while active is resolved after its expiry: not found
C19_Witness ==
    /\ last.op = "getOriginalURL"
    /\ MapHas(urls, last.shortcode)
    /\ last.value = Undefined
    /\ now > ExpiryOf(last.shortcode)
    /\ clickCalls[last.shortcode] = 1

\* C20: a recordClick call on a code that has no analytics record returns without
\* an error and changes nothing: no record is created, and the urls map and every
\* analytics record stay as they were.
C20_ClickOnUnknownCodeIsNoOp ==
    [][(last'.op = "recordClick" /\ ~MapHas(analytics, last'.shortcode))
          => /\ urls' = urls
             /\ analytics' = analytics
             /\ ~MapHas(analytics', last'.shortcode)
             /\ ~MapHas(urls', last'.shortcode)
             /\ recordClick(Store, now, last'.shortcode, "", "", "") = Store]_vars

\* recordClick has run on a code that is not in a store of two codes, one clicked
C20_Witness ==
    /\ last.op = "recordClick"
    /\ ~MapHas(analytics, last.shortcode)
    /\ Len(analytics) = 2
    /\ \E i \in DOMAIN analytics : analytics[i].val.totalClicks = 1

\* a createShortURL call has just returned
IsReturnedCreate(l) == IsCreate(l) /\ ~l.threw

\* C22: getAllURLs returns one summary per stored code, expired codes included,
\* in the order the codes were created: a create call that returns adds the
\* summary of its code at the end of the list and no other step changes the
\* codes of the list; each summary carries the URL given at the creation and the
\* number of clicks recorded on its code.
C22_ListInCreationOrder ==
    [][/\ Len(getAllURLs(Store')) = Cardinality(DOMAIN given')
       /\ \A i \in DOMAIN getAllURLs(Store) :
             getAllURLs(Store')[i].shortcode = getAllURLs(Store)[i].shortcode
       /\ IF IsReturnedCreate(last')
          THEN /\ Len(getAllURLs(Store')) = Len(getAllURLs(Store)) + 1
               /\ getAllURLs(Store')[Len(getAllURLs(Store'))].shortcode = last'.shortcode[1]
          ELSE Len(getAllURLs(Store')) = Len(getAllURLs(Store))
       /\ \A i, j \in DOMAIN getAllURLs(Store') :
             i # j => getAllURLs(Store')[i].shortcode # getAllURLs(Store')[j].shortcode
       /\ \A i \in DOMAIN getAllURLs(Store') :
             /\ getAllURLs(Store')[i].originalUrl = given'[getAllURLs(Store')[i].shortcode]
             /\ getAllURLs(Store')[i].totalClicks
                   = clickCalls'[getAllURLs(Store')[i].shortcode]
             /\ getAllURLs(Store')[i].shortLink
                   = ShortLink(getAllURLs(Store')[i].shortcode)
       /\ last'.op = "getAllURLs" => last'.value = getAllURLs(Store)]_vars

\* the list of two codes: the older one expired and never clicked, the newer
\* one clicked once
C22_Witness ==
    /\ last.op = "getAllURLs"
    /\ Len(last.value) = 2
    /\ now > DateParse(last.value[1].expiryDate)
    /\ last.value[1].totalClicks = 0
    /\ last.value[2].totalClicks = 1
    /\ DateParse(last.value[1].createdAt) < DateParse(last.value[2].createdAt)

-----------------------------------------------------------------------------
(* Properties of concurrent creations, checked under ConcSpec *)

\* the requests that name the custom code c and whose handler has run
NamedAndRun(c) ==
    {i \in DOMAIN requests :
        requests[i].outcome # Undefined /\ requests[i].body.shortcode = Some(c)}

Succeeded(i) == requests[i].outcome # Undefined /\ requests[i].outcome[1].status = 201

\* C15: of the concurrent creations that name the same custom code, whatever the
\* order their handlers run in, exactly one succeeds when the code was free (none
\* when a generated code took it first) and every other one fails with the
\* collision error of the store; and no creation changes a record that is in the
\* store already.
C15_CheckAndInsertAtomic ==
    [][/\ \A c \in {b.shortcode[1] : b \in {x \in ConcBodies : x.shortcode # Undefined}} :
             LET named == {i \in DOMAIN requests' :
                              /\ requests'[i].outcome # Undefined
                              /\ requests'[i].body.shortcode = Some(c)}
                 won == {i \in named : requests'[i].outcome[1].status = 201}
                 early == {i \in DOMAIN requests' :
                              /\ requests'[i].outcome # Undefined
                              /\ requests'[i].body.shortcode = Undefined
                              /\ requests'[i].outcome[1].shortcode = Some(c)}
             IN  named # {}
                    => /\ Cardinality(won) + Cardinality(early) = 1
                       /\ \A i \in named \ won :
                             /\ requests'[i].outcome[1].threw
                             /\ requests'[i].outcome[1].message = CollisionMessage
                       /\ \A i \in won :
                             MapGet(urls', c).originalUrl = requests'[i].body.url[1]
       /\ \A k \in DOMAIN urls : urls'[k] = urls[k]
       /\ \A k \in DOMAIN analytics : analytics'[k] = analytics[k]]_vars

\* two requests in flight together name the same code with different URLs; the
\* handler of the one that arrived later ran first and won, the other collided
C15_Witness ==
    /\ Len(requests) = 2
    /\ NamedAndRun("abc123") = {1, 2}
    /\ Succeeded(2)
    /\ ~Succeeded(1)
    /\ requests[1].outcome[1].message = CollisionMessage
    /\ requests[1].body.url # requests[2].body.url
    /\ MapGet(urls, "abc123").originalUrl = requests[2].body.url[1]

-----------------------------------------------------------------------------
(* Properties of the generated codes, checked under LoopSpec and LoopFairSpec *)

\* a create call without a custom code has just returned
IsGeneratedCreate(l) ==
    IsCreate(l) /\ ~l.threw /\ ~Truthy(l.customShortcode)

\* C17: the code a create call without a custom code returns was not a key of the
\* store before the call, whatever the loop drew before it; the call changes no
\* URL record and no analytics record that was in the store.
C17_GeneratedCodeWasFree ==
    [][(running # Undefined /\ running' = Undefined)
          => /\ IsGeneratedCreate(last')
             /\ ~MapHas(urls, last'.shortcode[1])
             /\ ~MapHas(analytics, last'.shortcode[1])
             /\ MapHas(urls', last'.shortcode[1])
             /\ \A k \in DOMAIN urls : urls'[k] = urls[k]
             /\ \A k \in DOMAIN analytics : analytics'[k] = analytics[k]]_vars

\* the loop drew a taken code first and returned another one; the record of the
\* taken code, clicked once, is still there
C17_Witness ==
    /\ IsGeneratedCreate(last)
    /\ running = Undefined
    /\ Len(urls) = 2
    /\ last.shortcode[1] = urls[2].key
    /\ TotalClicks(analytics, urls[1].key) = 1
    /\ urls[1].val.originalUrl # urls[2].val.originalUrl

\* the codes of the generated code space that the urls map does not hold
FreeCodes == {s \in NanoidValues : IsNanoid(s) /\ ~MapHas(urls, s)}

\* C18: a create call that is inside its loop returns, with a code that was free,
\* whenever a code of the generated code space is free; when every code of that
\* space is taken the loop goes on for ever: the call neither returns nor throws
\* and changes nothing.
C18_LoopEndsIffCodeFree ==
    /\ (running # Undefined /\ FreeCodes # {}) ~> (running = Undefined)
    /\ [][/\ (running # Undefined /\ running' = Undefined)
             => /\ IsGeneratedCreate(last')
                /\ last'.shortcode[1] \in FreeCodes
          /\ (running # Undefined /\ FreeCodes = {})
             => /\ running' # Undefined
                /\ last'.op = "none"
                /\ UNCHANGED <<urls, analytics, given, clickCalls>>]_vars

\* every code of the space is taken and the loop has drawn a code and gone on
C18_Witness ==
    /\ running # Undefined
    /\ running[1].shortcode # Undefined
    /\ FreeCodes = {}
    /\ Len(urls) = Cardinality(NanoidOutputs)

-----------------------------------------------------------------------------
(* Properties of the click sequences, checked under ClickSpec *)

IsPrefix(s, t) == Len(s) <= Len(t) /\ \A i \in DOMAIN s : t[i] = s[i]

\* C21: the click sequence of every code is append-only and chronological: every
\* step keeps the sequence it had as a prefix of the new one, a recordClick call
\* on the code adds exactly its event, stamped with the time of the call, at the
\* end, and the timestamps along the sequence never decrease.
C21_ClicksAppendOnly ==
    [][/\ \A i \in DOMAIN analytics :
             /\ IsPrefix(analytics[i].val.clicks, analytics'[i].val.clicks)
             /\ IF last'.op = "recordClick" /\ last'.shortcode = analytics[i].key
                THEN /\ Len(analytics'[i].val.clicks) = Len(analytics[i].val.clicks) + 1
                     /\ analytics'[i].val.clicks[Len(analytics'[i].val.clicks)].timestamp
                           = ToISOString(now)
                ELSE analytics'[i].val.clicks = analytics[i].val.clicks
       /\ \A i \in DOMAIN analytics' :
             \A j, k \in DOMAIN analytics'[i].val.clicks :
                 j <= k => DateParse(analytics'[i].val.clicks[j].timestamp)
                              <= DateParse(analytics'[i].val.clicks[k].timestamp)]_vars

\* three clicks of different callers at different times on one code
C21_Witness ==
    /\ last.op = "recordClick"
    /\ MapHas(analytics, last.shortcode)
    /\ Len(MapGet(analytics, last.shortcode).clicks) = 3
    /\ MapGet(analytics, last.shortcode).clicks[1].ip
          # MapGet(analytics, last.shortcode).clicks[2].ip
    /\ DateParse(MapGet(analytics, last.shortcode).clicks[1].timestamp)
          < DateParse(MapGet(analytics, last.shortcode).clicks[3].timestamp)

-----------------------------------------------------------------------------
(* Properties of the analytics panel, checked under PanelSpec *)

\* C24: when the analytics of an expanded row hold more than 10 clicks, the panel
\* lists the 10 entries recorded last, i.e. the last 10 of the click sequence
C24_PanelShowsLatestClicks ==
    \A i \in DOMAIN expandedRows :
        expandedRows[i].val # Undefined =>
            LET clicks == expandedRows[i].val[1].clicks
            IN  Len(clicks) > PanelSize =>
                    ShownClicks(expandedRows[i].val[1])
                        = SubSeq(clicks, Len(clicks) - PanelSize + 1, Len(clicks))

-----------------------------------------------------------------------------
(* Properties of the forms of the URL shortener page, checked under FormsSpec *)

\* C23: the page shows at least 1 and at most 5 forms, whatever was added, removed,
\* typed and submitted, and whatever requests are in flight
C23_FormCountInRange == Len(urlForms) \in 1..MaxForms

\* the part of C23 about the largest number of forms
FormCountAtMostMax == Len(urlForms) <= MaxForms

\* a step from a page whose forms have different ids leaves at least one form
FormCountWithDistinctIds ==
    [][(/\ \A i, j \in DOMAIN urlForms : urlForms[i].id = urlForms[j].id => i = j
        /\ Len(urlForms) >= 1)
          => Len(urlForms') >= 1]_vars

-----------------------------------------------------------------------------
(* Properties of the shorten requests of the page, checked under PageSpec *)

\* the step is the end of the shortenUrl call k: its answer has come
CompletesRequest(k) ==
    fetches' = SubSeq(fetches, 1, k - 1) \o SubSeq(fetches, k + 1, Len(fetches))

\* the step is the end of the shortenUrl call k, answered with a short link
CompletesWithLink(k) ==
    CompletesRequest(k) /\ Len(shortenedUrls') = Len(shortenedUrls) + 1

\* C25: when the request of a form is answered with a short link, the form is left
\* with an empty url, validity 30, an empty shortcode and loading false, and the new
\* short link is at the head of the list of shortened URLs
C25_FormClearedAfterSuccess ==
    [][\A k \in DOMAIN fetches :
          CompletesWithLink(k) =>
              /\ \E i \in DOMAIN urlForms' : urlForms'[i].id = fetches[k].formData.id
              /\ \A i \in DOMAIN urlForms' :
                    urlForms'[i].id = fetches[k].formData.id =>
                        urlForms'[i] = BlankForm(fetches[k].formData.id)
              /\ Tail(shortenedUrls') = shortenedUrls
              /\ Head(shortenedUrls').originalUrl = fetches[k].formData.url]_vars

\* the part of C25 about the list of shortened URLs
LinkPrependedAfterSuccess ==
    [][\A k \in DOMAIN fetches :
          CompletesWithLink(k) =>
              /\ Tail(shortenedUrls') = shortenedUrls
              /\ Head(shortenedUrls').originalUrl = fetches[k].formData.url
              /\ \A i \in DOMAIN urlForms' :
                    urlForms'[i].id = fetches[k].formData.id => ~urlForms'[i].loading]_vars

\* the form with this id has a shortenUrl call waiting for its answer
InFlight(id) == \E k \in DOMAIN fetches : fetches[k].formData.id = id

\* C26: a form is loading exactly while a request of it is in flight, whatever the
\* order in which the requests of the forms are sent and answered, and no form has
\* two requests in flight (on a page whose forms have different ids, an id naming
\* one form)
C26_LoadingWhileInFlight ==
    (\A i, j \in DOMAIN urlForms : urlForms[i].id = urlForms[j].id => i = j) =>
        /\ \A i \in DOMAIN urlForms : urlForms[i].loading <=> InFlight(urlForms[i].id)
        /\ \A k, l \in DOMAIN fetches :
              fetches[k].formData.id = fetches[l].formData.id => k = l

\* C27: the end of a shortenUrl call leaves the other forms of the page, in number,
\* order and content, and the errors recorded for the other forms as they were just
\* before it: what was typed, added, removed or reported while the request was in
\* flight stays
C27_CompletionKeepsOtherForms ==
    [][\A k \in DOMAIN fetches :
          CompletesRequest(k) =>
              /\ SelectSeq(urlForms', LAMBDA form : form.id # fetches[k].formData.id)
                    = SelectSeq(urlForms, LAMBDA form : form.id # fetches[k].formData.id)
              /\ WithoutError(errors', fetches[k].formData.id)
                    = WithoutError(errors, fetches[k].formData.id)]_vars

=============================================================================
